---- MODULE Spec2Model ----
(***************************************************************************)
(* fetch_python.py: fetch the latest release of python-build-standalone,   *)
(* classify its assets by system, plan the downloads that are missing on   *)
(* disk and run them on a thread pool.                                     *)
(*                                                                         *)
(* A file name is a sequence of tokens; `marker in name` of the source is  *)
(* Contains(name, marker).  A path os.path.join(BASE_DIR, system,          *)
(* "Python", filename) is the tuple <<BASE_DIR, system, "Python",          *)
(* filename>>.  The filesystem fs maps every existing path to the state of *)
(* its content.                                                            *)
(*                                                                         *)
(* What can fail in a call of download_single_file is urlretrieve (before  *)
(* or after the destination file is opened) and os.remove; the print calls *)
(* are taken not to raise.                                                 *)
(***************************************************************************)
EXTENDS Integers, Sequences, FiniteSets, TLC

\* ------------------------------------------------------------------ bounds
MaxAssets == 2
MaxWorkers == 2
MaxRuns == 2

\* ------------------------------------------------------- program constants
BASE_DIR == "downloads"
SYSTEMS == <<"Linux", "macOS", "Windows">>

SUFFIX == "install_only.tar.gz"

\* ------------------------------------------------------------ the release
\* Assets a release payload can list (name, browser_download_url).
LinuxAsset ==
    [name |-> <<"cpython", "x86_64", "unknown-linux-gnu", SUFFIX>>, url |-> <<"u1">>]
DarwinAsset ==
    [name |-> <<"cpython", "aarch64", "apple-darwin", SUFFIX>>, url |-> <<"u2">>]
StrippedAsset ==
    [name |-> <<"cpython", "i686", "pc-windows", "install_only_stripped.tar.gz">>,
     url |-> <<"u3">>]
NoArchAsset ==
    [name |-> <<"cpython", "riscv64", "unknown-linux-gnu", SUFFIX>>, url |-> <<"u4">>]

AssetPool == {LinuxAsset, DarwinAsset, StrippedAsset, NoArchAsset}

RECURSIVE SeqsUpTo(_, _)
SeqsUpTo(S, n) ==
    IF n = 0 THEN {<<>>}
    ELSE LET shorter == SeqsUpTo(S, n - 1)
         IN  shorter \cup {Append(s, x) : s \in {t \in shorter : Len(t) = n - 1}, x \in S}

TagNames == {"", "v1"}

Releases == [tag_name : TagNames, assets : SeqsUpTo(AssetPool, MaxAssets)]

\* ------------------------------------------------- fetch_python_versions
Contains(name, marker) == \E i \in 1..Len(name) : name[i] = marker

SystemOf(name) ==
    IF Contains(name, "unknown-linux-gnu") THEN "Linux"
    ELSE IF Contains(name, "apple-darwin") THEN "macOS"
    ELSE IF Contains(name, "pc-windows") THEN "Windows"
    ELSE "None"

PlatformInfoDefaultLabel(name) ==
    IF Contains(name, "unknown-linux-gnu") THEN
        IF Contains(name, "x86_64") THEN "x86_64"
        ELSE IF Contains(name, "aarch64") THEN "aarch64"
        ELSE "unknown"
    ELSE IF Contains(name, "apple-darwin") THEN
        IF Contains(name, "x86_64") THEN "x86_64"
        ELSE IF Contains(name, "aarch64") THEN "aarch64 (Apple Silicon)"
        ELSE "unknown"
    ELSE IF Contains(name, "pc-windows") THEN
        IF Contains(name, "x86_64") THEN "x86_64"
        ELSE IF Contains(name, "i686") THEN "i686"
        ELSE "unknown"
    ELSE ""

PlatformInfo(name) ==
    IF Contains(name, "unknown-linux-gnu") THEN
        IF Contains(name, "x86_64") THEN "x86_64"
        ELSE IF Contains(name, "aarch64") THEN "aarch64"
        ELSE ""
    ELSE IF Contains(name, "apple-darwin") THEN
        IF Contains(name, "x86_64") THEN "x86_64"
        ELSE IF Contains(name, "aarch64") THEN "aarch64 (Apple Silicon)"
        ELSE ""
    ELSE IF Contains(name, "pc-windows") THEN
        IF Contains(name, "x86_64") THEN "x86_64"
        ELSE IF Contains(name, "i686") THEN "i686"
        ELSE ""
    ELSE ""

Descriptor(asset) ==
    [filename |-> asset.name, platform |-> PlatformInfo(asset.name), url |-> asset.url]

\* result[system][version].append(...), creating the list on first use
AddDescriptor(result, system, version, d) ==
    LET old == result[system]
        lst == IF version \in DOMAIN old THEN old[version] ELSE <<>>
        new == [v \in DOMAIN old \cup {version} |->
                   IF v = version THEN Append(lst, d) ELSE old[v]]
    IN  [result EXCEPT ![system] = new]

EmptyResult == [s \in {SYSTEMS[i] : i \in 1..Len(SYSTEMS)} |-> [v \in {} |-> <<>>]]

RECURSIVE ClassifyNoFilter(_, _, _, _)
ClassifyNoFilter(assets, i, version, result) ==
    IF i > Len(assets) THEN result
    ELSE IF SystemOf(assets[i].name) # "None" /\ PlatformInfo(assets[i].name) # ""
        THEN ClassifyNoFilter(assets, i + 1, version,
                              AddDescriptor(result, SystemOf(assets[i].name), version,
                                            Descriptor(assets[i])))
    ELSE ClassifyNoFilter(assets, i + 1, version, result)

RECURSIVE Classify(_, _, _, _)
Classify(assets, i, version, result) ==
    IF i > Len(assets) THEN result
    ELSE LET asset == assets[i]
             name == asset.name
         IN  IF ~Contains(name, SUFFIX)
                 THEN Classify(assets, i + 1, version, result)
             ELSE IF SystemOf(name) # "None" /\ PlatformInfo(name) # ""
                 THEN Classify(assets, i + 1, version,
                               AddDescriptor(result, SystemOf(name), version,
                                             Descriptor(asset)))
             ELSE Classify(assets, i + 1, version, result)

None == [none |-> TRUE, result |-> EmptyResult]

fetch_python_versions_lazy_keys(raised, response) ==
    IF raised THEN None
    ELSE LET full == IF response.tag_name = "" THEN EmptyResult
                     ELSE Classify(response.assets, 1, response.tag_name, EmptyResult)
         IN  [none |-> FALSE,
              result |-> [s \in {x \in DOMAIN full : DOMAIN full[x] # {}} |-> full[s]]]

\* raised: urlopen, json.loads or a .get of the try block raised
fetch_python_versions(raised, response) ==
    IF raised THEN None
    ELSE IF response.tag_name = "" THEN [none |-> FALSE, result |-> EmptyResult]
    ELSE [none |-> FALSE,
          result |-> Classify(response.assets, 1, response.tag_name, EmptyResult)]

\* ------------------------------------------------- download_files: planning
Exists(files, path) == path \in DOMAIN files

FolderPath(system) == <<BASE_DIR, system, "Python">>

Join(folder_path, filename) == Append(folder_path, filename)

ShaFilename(version) == <<"SHA256SUMS", version, "txt">>

ShaUrl(version) == <<"releases/download", version, "SHA256SUMS">>

Task(url, save_path, filename) ==
    [url |-> url, save_path |-> save_path, filename |-> filename]

PlanShaFirstOnly(files, system, version, sha_tasks) ==
    LET sha_path == Append(<<BASE_DIR, system, "Python">>, <<"SHA256SUMS", version, "txt">>)
    IN  IF ~(sha_path \in DOMAIN files) /\ sha_tasks = <<>>
            THEN Append(sha_tasks,
                        [url |-> <<"releases/download", version, "SHA256SUMS">>,
                         save_path |-> sha_path,
                         filename |-> <<"SHA256SUMS", version, "txt">>])
            ELSE sha_tasks

PlanShaNoSkip(files, system, version, sha_tasks) ==
    Append(sha_tasks,
           [url |-> <<"releases/download", version, "SHA256SUMS">>,
            save_path |-> Append(<<BASE_DIR, system, "Python">>,
                                 <<"SHA256SUMS", version, "txt">>),
            filename |-> <<"SHA256SUMS", version, "txt">>])

\* if not os.path.exists(sha_path): sha_tasks.append(...)
PlanSha(files, system, version, sha_tasks) ==
    LET sha_path == Join(FolderPath(system), ShaFilename(version))
    IN  IF ~Exists(files, sha_path)
            THEN Append(sha_tasks, Task(ShaUrl(version), sha_path, ShaFilename(version)))
            ELSE sha_tasks

RECURSIVE PlanFilesNoSkip(_, _, _, _, _)
PlanFilesNoSkip(files, system, items, i, download_tasks) ==
    IF i > Len(items) THEN download_tasks
    ELSE PlanFilesNoSkip(files, system, items, i + 1,
                         Append(download_tasks,
                                [url |-> items[i].url,
                                 save_path |-> Append(<<BASE_DIR, system, "Python">>,
                                                      items[i].filename),
                                 filename |-> items[i].filename]))

\* for item in files: skip the existing destinations, append the others
RECURSIVE PlanFiles(_, _, _, _, _)
PlanFiles(files, system, items, i, download_tasks) ==
    IF i > Len(items) THEN download_tasks
    ELSE LET save_path == Join(FolderPath(system), items[i].filename)
         IN  IF Exists(files, save_path)
                 THEN PlanFiles(files, system, items, i + 1, download_tasks)
                 ELSE PlanFiles(files, system, items, i + 1,
                                Append(download_tasks,
                                       Task(items[i].url, save_path, items[i].filename)))

\* for version, files in versions_data[system].items()
RECURSIVE PlanVersions(_, _, _, _, _)
PlanVersions(files, system, versions, todo, plan) ==
    IF todo = {} THEN plan
    ELSE LET version == CHOOSE v \in todo : TRUE
         IN  PlanVersions(files, system, versions, todo \ {version},
                 [sha_tasks |-> PlanSha(files, system, version, plan.sha_tasks),
                  download_tasks |-> PlanFiles(files, system, versions[version], 1,
                                               plan.download_tasks),
                  dirs |-> plan.dirs \cup {FolderPath(system)}])

\* for system in systems_to_download
RECURSIVE PlanSystems(_, _, _, _, _)
PlanSystems(files, data, systems, i, plan) ==
    IF i > Len(systems) THEN plan
    ELSE IF systems[i] \notin DOMAIN data
        THEN PlanSystems(files, data, systems, i + 1, plan)
    ELSE PlanSystems(files, data, systems, i + 1,
             PlanVersions(files, systems[i], data[systems[i]],
                          DOMAIN data[systems[i]], plan))

Plan(files, folders, data, systems) ==
    PlanSystems(files, data, systems, 1,
                [sha_tasks |-> <<>>, download_tasks |-> <<>>, dirs |-> folders])

\* ------------------------------------------------------------------ state
VARIABLES
    release,         \* what the releases/latest endpoint serves
    args,            \* argparse result: system, workers
    run,             \* number of the current invocation of main
    pcMain,          \* position of the main thread
    versions_data,   \* result of fetch_python_versions
    fs,              \* existing files: path -> "partial" | "complete"
    dirs,            \* existing folders
    sha_tasks,       \* planned manifest tasks
    download_tasks,  \* planned artifact tasks
    submitted,       \* number of futures submitted so far
    queue,           \* work queue of the executor (indices of futures)
    pc,              \* position of each future's download_single_file call
    result,          \* what each call returned: "none" | "true" | "false" | "raised"
    print_lock,      \* holder of print_lock, 0 when free
    collected,       \* futures as_completed has yielded
    success_count,
    failed_count,
    totals,          \* the totals line, <<>> until printed
    xfer,            \* history: how each future's urlretrieve ended:
                     \* "none" | "ok" | "errOpen" | "errWrite"
    rmFailed,        \* history: futures whose os.remove raised
    fsAtPlan,        \* history: fs when the tasks were planned
    prev             \* history: how the previous invocation ended

vars == <<release, args, run, pcMain, versions_data, fs, dirs, sha_tasks,
          download_tasks, submitted, queue, pc, result, print_lock, collected,
          success_count, failed_count, totals, xfer, rmFailed, fsAtPlan, prev>>

inputVars == <<release, args>>
planVars == <<sha_tasks, download_tasks, fsAtPlan>>
tallyVars == <<collected, success_count, failed_count, totals>>

ArtifactsFirst == download_tasks \o sha_tasks

\* futures: the manifest tasks first, then the artifact tasks
tasks == sha_tasks \o download_tasks

Futures == 1..Len(tasks)

systems_to_download ==
    IF args.system = "all" THEN SYSTEMS ELSE <<args.system>>

max_workers == args.workers

InWorker == {"ready", "printStart", "fetching", "writing", "wantDone", "printDone",
             "wantFail", "printFail", "cleanup"}

Running == {t \in Futures : pc[t] \in InWorker}

Transferring == {t \in Futures : pc[t] \in {"fetching", "writing"}}

Finished == {t \in Futures : pc[t] = "returned"}

NoPrev == [ended |-> "none", failed |-> 0, fetched |-> FALSE]

Init ==
    /\ release \in Releases
    /\ args \in [system : {"Linux", "macOS", "Windows", "all"}, workers : (-1)..MaxWorkers]
    /\ run = 1
    /\ pcMain = "start"
    /\ versions_data = None
    /\ fs = [p \in {} |-> "complete"]
    /\ dirs = {}
    /\ sha_tasks = <<>>
    /\ download_tasks = <<>>
    /\ submitted = 0
    /\ queue = <<>>
    /\ pc = <<>>
    /\ result = <<>>
    /\ print_lock = 0
    /\ collected = {}
    /\ success_count = 0
    /\ failed_count = 0
    /\ totals = <<>>
    /\ xfer = <<>>
    /\ rmFailed = {}
    /\ fsAtPlan = fs
    /\ prev = NoPrev

\* ------------------------------------------------------------------- main
NeverFalsy(data) == FALSE

\* if not versions_data
Falsy(data) == data.none \/ DOMAIN data.result = {}

\* versions_data = fetch_python_versions(); if not versions_data: sys.exit(1)
Main_Fetch ==
    /\ pcMain = "start"
    /\ \E raised \in BOOLEAN :
          /\ versions_data' = fetch_python_versions(raised, release)
          /\ pcMain' = IF Falsy(versions_data') THEN "exit1" ELSE "plan"
    /\ UNCHANGED <<inputVars, run, fs, dirs, planVars, submitted, queue, pc, result,
                   print_lock, tallyVars, xfer, rmFailed, prev>>

PoolCreatedAlways(workers) == TRUE

\* ThreadPoolExecutor(max_workers) raises ValueError unless max_workers > 0
PoolCreated(workers) == workers > 0

NeverNothingToDo(total_tasks) == FALSE

\* if total_tasks == 0: print "nothing to download"; return
NothingToDo(total_tasks) == total_tasks = 0

\* download_files up to the creation of the pool
Main_Plan ==
    /\ pcMain = "plan"
    /\ IF versions_data.none
          THEN \* `system not in None` raises TypeError
               /\ pcMain' = "crashed"
               /\ UNCHANGED <<dirs, planVars, pc, result, xfer>>
          ELSE LET plan == Plan(fs, dirs, versions_data.result, systems_to_download)
                   total_tasks == Len(plan.sha_tasks) + Len(plan.download_tasks)
               IN  /\ dirs' = plan.dirs
                   /\ sha_tasks' = plan.sha_tasks
                   /\ download_tasks' = plan.download_tasks
                   /\ fsAtPlan' = fs
                   /\ pc' = [t \in 1..total_tasks |-> "unsubmitted"]
                   /\ result' = [t \in 1..total_tasks |-> "none"]
                   /\ xfer' = [t \in 1..total_tasks |-> "none"]
                   /\ pcMain' = IF NothingToDo(total_tasks) THEN "stats"
                                ELSE IF ~PoolCreated(max_workers) THEN "crashed"
                                ELSE IF total_tasks = 0 THEN "collect"
                                ELSE "submit"
    /\ UNCHANGED <<inputVars, run, versions_data, fs, submitted, queue, print_lock,
                   tallyVars, rmFailed, prev>>

EnqueueInFront(q, item) == <<item>> \o q

\* executor.submit puts the work item at the end of the executor's queue
Enqueue(q, item) == Append(q, item)

\* executor.submit(download_single_file, ...), in the order of futures
Main_Submit ==
    /\ pcMain = "submit"
    /\ submitted < Len(tasks)
    /\ submitted' = submitted + 1
    /\ queue' = Enqueue(queue, submitted + 1)
    /\ pc' = [pc EXCEPT ![submitted + 1] = "queued"]
    /\ pcMain' = IF submitted + 1 = Len(tasks) THEN "collect" ELSE "submit"
    /\ UNCHANGED <<inputVars, run, versions_data, fs, dirs, planVars, result,
                   print_lock, tallyVars, xfer, rmFailed, prev>>

\* for future in as_completed(futures): count the outcome
Main_Collect(t) ==
    /\ pcMain = "collect"
    /\ t \in Finished \ collected
    /\ collected' = collected \cup {t}
    /\ IF result[t] = "raised"
          THEN \* future.result() re-raises; the with block still joins the pool
               /\ pcMain' = "unwinding"
               /\ UNCHANGED <<success_count, failed_count>>
          ELSE /\ pcMain' = "collect"
               /\ success_count' = IF result[t] = "true" THEN success_count + 1
                                    ELSE success_count
               /\ failed_count' = IF result[t] = "true" THEN failed_count
                                   ELSE failed_count + 1
    /\ UNCHANGED <<inputVars, run, versions_data, fs, dirs, planVars, submitted, queue,
                   pc, result, print_lock, totals, xfer, rmFailed, prev>>

ExhaustedAfterFirst(yielded, futures) == yielded # {}

\* as_completed(futures) is exhausted once it has yielded every future
AsCompletedExhausted(yielded, futures) == yielded = futures

\* leaving the with block: executor.shutdown(wait=True)
PoolJoined == Finished = Futures

\* the with block is left once the pool is joined; then the totals are
\* printed, unless future.result() raised: the exception leaves download_files
Main_Totals ==
    /\ pcMain \in {"collect", "unwinding"}
    /\ PoolJoined
    /\ IF pcMain = "unwinding"
          THEN /\ pcMain' = "crashed"
               /\ totals' = totals
          ELSE /\ AsCompletedExhausted(collected, Futures)
               /\ totals' = <<success_count, failed_count>>
               /\ pcMain' = "stats"
    /\ UNCHANGED <<inputVars, run, versions_data, fs, dirs, planVars, submitted, queue,
                   pc, result, print_lock, collected, success_count, failed_count,
                   xfer, rmFailed, prev>>

\* the per-system statistics of main, then the normal exit
Main_Stats ==
    /\ pcMain = "stats"
    /\ pcMain' = "exit0"
    /\ UNCHANGED <<inputVars, run, versions_data, fs, dirs, planVars, submitted, queue,
                   pc, result, print_lock, tallyVars, xfer, rmFailed, prev>>

\* ------------------------------------------------------------ the workers
PoolHasIdleWorkerOffByOne(active, workers) == active <= workers

\* a worker thread exists or can be spawned for the next work item
PoolHasIdleWorker(active, workers) == active < workers

\* a worker takes the oldest work item and calls download_single_file
Worker_Start(t) ==
    /\ queue # <<>>
    /\ t = Head(queue)
    /\ PoolHasIdleWorker(Cardinality(Running), max_workers)
    /\ queue' = Tail(queue)
    /\ pc' = [pc EXCEPT ![t] = "ready"]
    /\ UNCHANGED <<inputVars, run, pcMain, versions_data, fs, dirs, planVars, submitted,
                   result, print_lock, tallyVars, xfer, rmFailed, prev>>

\* the three thread_safe_print calls of download_single_file
Printing(at) ==
    IF at = "ready" THEN "printStart"
    ELSE IF at = "wantDone" THEN "printDone"
    ELSE "printFail"

LockIgnored(lock) == TRUE

\* print_lock can be acquired when no thread holds it
LockFree(lock) == lock = 0

\* thread_safe_print: with print_lock (acquire)
Print_Enter(t) ==
    /\ pc[t] \in {"ready", "wantDone", "wantFail"}
    /\ LockFree(print_lock)
    /\ print_lock' = t
    /\ pc' = [pc EXCEPT ![t] = Printing(pc[t])]
    /\ UNCHANGED <<inputVars, run, pcMain, versions_data, fs, dirs, planVars, submitted,
                   queue, result, tallyVars, xfer, rmFailed, prev>>

ReturnsTrueAlways(block) == "true"

\* return True, filename (try block) / return False, filename (except block)
ReturnValue(block) == IF block = "try" THEN "true" ELSE "false"

\* thread_safe_print: the line is printed and print_lock released; after the
\* "done" line the call returns True
Print_Exit(t) ==
    /\ pc[t] \in {"printStart", "printDone", "printFail"}
    /\ print_lock = t
    /\ print_lock' = 0
    /\ pc' = [pc EXCEPT ![t] = IF pc[t] = "printStart" THEN "fetching"
                                ELSE IF pc[t] = "printDone" THEN "returned"
                                ELSE "cleanup"]
    /\ result' = [result EXCEPT ![t] = IF pc[t] = "printDone" THEN ReturnValue("try")
                                        ELSE @]
    /\ UNCHANGED <<inputVars, run, pcMain, versions_data, fs, dirs, planVars, submitted,
                   queue, tallyVars, xfer, rmFailed, prev>>

\* open(save_path, "wb") creates or truncates the file
OpenForWrite(files, path) ==
    [p \in DOMAIN files \cup {path} |-> IF p = path THEN "partial" ELSE files[p]]

\* the last block is written and the file closed; a file unlinked meanwhile
\* stays unlinked
CloseWritten(files, path) ==
    [p \in DOMAIN files |-> IF p = path THEN "complete" ELSE files[p]]

\* urlretrieve: the URL is opened, then the destination file; either raises
Transfer_Open(t) ==
    /\ pc[t] = "fetching"
    /\ \/ /\ fs' = OpenForWrite(fs, tasks[t].save_path)
          /\ pc' = [pc EXCEPT ![t] = "writing"]
          /\ xfer' = xfer
       \/ /\ pc' = [pc EXCEPT ![t] = "wantFail"]
          /\ xfer' = [xfer EXCEPT ![t] = "errOpen"]
          /\ fs' = fs
    /\ UNCHANGED <<inputVars, run, pcMain, versions_data, dirs, planVars, submitted,
                   queue, result, print_lock, tallyVars, rmFailed, prev>>

\* urlretrieve: the blocks are copied; a read, a write or a short read raises
Transfer_Finish(t) ==
    /\ pc[t] = "writing"
    /\ \/ /\ fs' = CloseWritten(fs, tasks[t].save_path)
          /\ pc' = [pc EXCEPT ![t] = "wantDone"]
          /\ xfer' = [xfer EXCEPT ![t] = "ok"]
       \/ /\ pc' = [pc EXCEPT ![t] = "wantFail"]
          /\ xfer' = [xfer EXCEPT ![t] = "errWrite"]
          /\ fs' = fs
    /\ UNCHANGED <<inputVars, run, pcMain, versions_data, dirs, planVars, submitted,
                   queue, result, print_lock, tallyVars, rmFailed, prev>>

KeepFile(files, path) == files

\* os.remove(save_path)
RemoveFile(files, path) == [p \in DOMAIN files \ {path} |-> files[p]]

RaiseRemoveError(block) == "raised"

\* except: pass -- an error of os.remove is swallowed, the call returns False
AfterRemoveError(block) == ReturnValue(block)

\* if os.path.exists(save_path): try os.remove(save_path); return False
\* (one step: a file that another call removes between the test and the
\* os.remove makes os.remove raise, which ends in the same state)
Cleanup(t) ==
    /\ pc[t] = "cleanup"
    /\ pc' = [pc EXCEPT ![t] = "returned"]
    /\ IF Exists(fs, tasks[t].save_path)
          THEN \/ /\ fs' = RemoveFile(fs, tasks[t].save_path)
                  /\ result' = [result EXCEPT ![t] = ReturnValue("except")]
                  /\ rmFailed' = rmFailed
               \/ /\ fs' = fs
                  /\ result' = [result EXCEPT ![t] = AfterRemoveError("except")]
                  /\ rmFailed' = rmFailed \cup {t}
          ELSE /\ fs' = fs
               /\ result' = [result EXCEPT ![t] = ReturnValue("except")]
               /\ rmFailed' = rmFailed
    /\ UNCHANGED <<inputVars, run, pcMain, versions_data, dirs, planVars, submitted,
                   queue, print_lock, tallyVars, xfer, prev>>

\* --------------------------------------------------------- the next run
Ended == pcMain \in {"exit0", "exit1", "crashed"}

\* the script is invoked again on the same release, with the same arguments
\* or with --workers 0
Rerun ==
    /\ Ended
    /\ run < MaxRuns
    /\ run' = run + 1
    /\ \E w \in {args.workers, 0} : args' = [args EXCEPT !.workers = w]
    /\ release' = release
    /\ prev' = [ended |-> IF pcMain = "exit0" /\ totals # <<>> THEN "totals" ELSE pcMain,
                failed |-> failed_count,
                fetched |-> ~versions_data.none]
    /\ pcMain' = "start"
    /\ versions_data' = None
    /\ sha_tasks' = <<>>
    /\ download_tasks' = <<>>
    /\ submitted' = 0
    /\ queue' = <<>>
    /\ pc' = <<>>
    /\ result' = <<>>
    /\ collected' = {}
    /\ success_count' = 0
    /\ failed_count' = 0
    /\ totals' = <<>>
    /\ xfer' = <<>>
    /\ rmFailed' = {}
    /\ fsAtPlan' = fs
    /\ UNCHANGED <<fs, dirs, print_lock>>

Next ==
    \/ Main_Fetch
    \/ Main_Plan
    \/ Main_Submit
    \/ \E t \in Futures : Main_Collect(t)
    \/ Main_Totals
    \/ Main_Stats
    \/ \E t \in Futures : Worker_Start(t)
    \/ \E t \in Futures : Print_Enter(t)
    \/ \E t \in Futures : Print_Exit(t)
    \/ \E t \in Futures : Transfer_Open(t)
    \/ \E t \in Futures : Transfer_Finish(t)
    \/ \E t \in Futures : Cleanup(t)
    \/ Rerun

Spec == Init /\ [][Next]_vars

\* ------------------------------------------ the Catalog Builder on its own
\* further assets a release payload can list
WindowsAsset ==
    [name |-> <<"cpython", "x86_64", "pc-windows", SUFFIX>>, url |-> <<"u5">>]
SourceAsset ==
    [name |-> <<"cpython", "src", SUFFIX>>, url |-> <<"u6">>]
TwoSystemsAsset ==
    [name |-> <<"cpython", "aarch64", "apple-darwin", "unknown-linux-gnu", SUFFIX>>,
     url |-> <<"u7">>]
WrongArchAsset ==
    [name |-> <<"cpython", "i686", "unknown-linux-gnu", "pc-windows", SUFFIX>>,
     url |-> <<"u8">>]

CatalogPool ==
    AssetPool \cup {WindowsAsset, SourceAsset, TwoSystemsAsset, WrongArchAsset}

CatalogReleases == [tag_name : TagNames, assets : SeqsUpTo(CatalogPool, MaxAssets)]

\* main is started on any of these releases
CatalogInit ==
    /\ release \in CatalogReleases
    /\ args = [system |-> "all", workers |-> MaxWorkers]
    /\ run = 1
    /\ pcMain = "start"
    /\ versions_data = None
    /\ fs = [p \in {} |-> "complete"]
    /\ dirs = {}
    /\ sha_tasks = <<>>
    /\ download_tasks = <<>>
    /\ submitted = 0
    /\ queue = <<>>
    /\ pc = <<>>
    /\ result = <<>>
    /\ print_lock = 0
    /\ collected = {}
    /\ success_count = 0
    /\ failed_count = 0
    /\ totals = <<>>
    /\ xfer = <<>>
    /\ rmFailed = {}
    /\ fsAtPlan = fs
    /\ prev = NoPrev

CatalogNext == Main_Fetch

SpecCatalog == CatalogInit /\ [][CatalogNext]_vars

\* What the interpreter's thread scheduling and the executor guarantee: the
\* main thread and every worker that can take a step eventually takes one.
\* Nothing bounds the time urlretrieve(url, save_path) blocks on the network:
\* line 98 sets no timeout, so Transfer_Open and Transfer_Finish get no
\* fairness.  The script need not be invoked again.
SchedulingFairness ==
    /\ WF_vars(Main_Fetch)
    /\ WF_vars(Main_Plan)
    /\ WF_vars(Main_Submit)
    /\ WF_vars(\E t \in Futures : Main_Collect(t))
    /\ WF_vars(Main_Totals)
    /\ WF_vars(Main_Stats)
    /\ WF_vars(\E t \in Futures : Worker_Start(t))
    /\ WF_vars(\E t \in Futures : Print_Enter(t))
    /\ WF_vars(\E t \in Futures : Print_Exit(t))
    /\ WF_vars(\E t \in Futures : Cleanup(t))

FairSpec == Spec /\ SchedulingFairness

\* the same, when moreover every transfer ends: the peer answers or the
\* connection breaks
TransfersEnd ==
    /\ WF_vars(\E t \in Futures : Transfer_Open(t))
    /\ WF_vars(\E t \in Futures : Transfer_Finish(t))

FairSpecTransfersEnd == Spec /\ SchedulingFairness /\ TransfersEnd

\* ----------------------------------------------------------------- claims
\* download_files got as far as planning the tasks of this run
Planned ==
    /\ ~versions_data.none
    /\ pcMain \in {"submit", "collect", "unwinding", "stats", "exit0", "crashed"}

Selected == {systems_to_download[i] : i \in 1..Len(systems_to_download)}

QueueSet == {queue[i] : i \in 1..Len(queue)}

Succeeded == {t \in Futures : result[t] = "true"}

Failed == {t \in Futures : result[t] = "false"}

\* C1: for every W >= 1, never more than W calls of download_single_file are
\* in a worker at once (so never more than W transfers), every submitted and
\* not yet started task is queued exactly once, and when the totals are
\* printed every task was counted exactly once:
\* success_count + failed_count = number of submitted tasks.
C1_BoundedPoolExactTally ==
    /\ max_workers >= 1 =>
          /\ Cardinality(Running) <= max_workers
          /\ Cardinality(Transferring) <= max_workers
    /\ \A i, j \in 1..Len(queue) : i # j => queue[i] # queue[j]
    /\ \A t \in Futures : (t \in QueueSet) <=> (pc[t] = "queued")
    /\ Cardinality(collected) = success_count + failed_count
    /\ totals # <<>> =>
          /\ submitted = Len(tasks)
          /\ collected = Futures
          /\ totals = <<Cardinality(Succeeded), Cardinality(Failed)>>
          /\ totals[1] + totals[2] = Len(tasks)

\* more tasks than workers were planned and the run reported both outcomes
C1_Witness ==
    /\ totals # <<>>
    /\ max_workers >= 1
    /\ Len(tasks) > max_workers
    /\ totals[1] >= 1
    /\ totals[2] >= 1

\* C2 as stated: at the step in which download_single_file returns a failure,
\* no file exists at the task's save_path.
C2_Original ==
    [][\A t \in Futures :
          (pc[t] = "cleanup" /\ pc'[t] = "returned")
              => ~Exists(fs', tasks[t].save_path)]_vars

\* C2 amended: a failure is returned only through the cleanup, and when the
\* cleanup is done (the last thing before return False) no file exists at the
\* task's save_path unless os.remove itself raised (the error is swallowed
\* and the file stays).
C2_CleanupUnlessRemoveFails ==
    [][\A t \in Futures :
          /\ (pc[t] \in InWorker /\ pc'[t] = "returned" /\ result'[t] # "true")
                => pc[t] = "cleanup"
          /\ (pc[t] = "cleanup" /\ pc'[t] = "returned")
                => /\ result'[t] = "false"
                   /\ ~Exists(fs', tasks[t].save_path) \/ t \in rmFailed']_vars

\* a transfer failed after its file was opened; the failure was returned and
\* the partial file is gone
C2_Witness ==
    \E t \in Futures :
        /\ xfer[t] = "errWrite"
        /\ result[t] = "false"
        /\ t \notin rmFailed
        /\ ~Exists(fs, tasks[t].save_path)

\* C3: every submitted task stays queued until it runs (no failure cancels
\* it), the outcome of a returned task is success exactly when its own
\* transfer succeeded, and when the totals are printed every task has run.
C3_IndependentOutcomes ==
    /\ \A t \in Futures :
          /\ (t <= submitted /\ pc[t] = "queued") => t \in QueueSet
          /\ pc[t] = "returned" => result[t] \in {"true", "false"}
          /\ pc[t] = "returned" => ((result[t] = "true") <=> (xfer[t] = "ok"))
          /\ pc[t] # "returned" => result[t] = "none"
    /\ totals # <<>> => \A t \in Futures : pc[t] = "returned" /\ xfer[t] # "none"

\* with one worker, a task failed and a task submitted after it succeeded
C3_Witness ==
    /\ totals # <<>>
    /\ max_workers = 1
    /\ \E t, u \in Futures : t < u /\ result[t] = "false" /\ result[u] = "true"

\* C4: no exception leaves download_single_file or download_files whatever
\* fails in a task: a task whose transfer, write or os.remove failed returns
\* False, and a run that planned tasks with W >= 1 ends with the totals,
\* which count these tasks as failed.
C4_FailureNeverFatal ==
    /\ \A t \in Futures :
          /\ result[t] # "raised"
          /\ (pc[t] = "returned" /\ (xfer[t] \in {"errOpen", "errWrite"} \/ t \in rmFailed))
                => result[t] = "false"
    /\ pcMain # "unwinding"
    /\ pcMain = "crashed" => (Planned /\ max_workers <= 0)
    /\ (pcMain \in {"stats", "exit0"} /\ Len(tasks) > 0) =>
          /\ totals # <<>>
          /\ totals[2] = Cardinality({t \in Futures : xfer[t] \in {"errOpen", "errWrite"}})

\* a run ended normally although one transfer failed before the file was
\* opened, one failed while writing, and an os.remove raised
C4_Witness ==
    /\ pcMain = "exit0"
    /\ totals # <<>>
    /\ rmFailed # {}
    /\ \E t, u \in Futures : xfer[t] = "errOpen" /\ xfer[u] = "errWrite"

\* the run before this one went through the whole pipeline, and this run
\* planned its tasks against the same release and a non-empty directory
SecondFullRun ==
    /\ run >= 2
    /\ prev.fetched
    /\ prev.ended \in {"totals", "exit0"}
    /\ Planned
    /\ DOMAIN fsAtPlan # {}

SavePaths == {tasks[t].save_path : t \in Futures}

\* C5 as stated: the second run of the full pipeline plans no task.
C5_Original == SecondFullRun => Len(tasks) = 0

\* C5 amended: the second run plans no task and starts no download when the
\* first run counted no failed task; in general it plans only destinations
\* that are absent, at most one destination per task the first run counted
\* as failed.
C5_NoTransferAfterCleanRun ==
    SecondFullRun =>
        /\ prev.failed = 0 =>
              /\ Len(tasks) = 0
              /\ submitted = 0
              /\ fs = fsAtPlan
        /\ Cardinality(SavePaths) <= prev.failed
        /\ \A t \in Futures : ~Exists(fsAtPlan, tasks[t].save_path)

\* the first run downloaded everything without a failure; the second run
\* ended without planning a task
C5_Witness ==
    /\ SecondFullRun
    /\ prev.ended = "totals"
    /\ prev.failed = 0
    /\ pcMain = "exit0"
    /\ Len(tasks) = 0

\* C6: when the totals are printed, and from then on, every submitted task
\* has returned and its outcome has been collected; while a task is queued or
\* running the totals are not printed and main has not left download_files.
C6_TallyAfterAllCompleted ==
    /\ totals # <<>> =>
          \A t \in Futures : pc[t] = "returned" /\ t \in collected
    /\ (\E t \in Futures : pc[t] \in InWorker \cup {"queued"}) =>
          /\ totals = <<>>
          /\ pcMain \in {"submit", "collect"}
    /\ (pcMain \in {"stats", "exit0"} /\ Len(tasks) > 0) => totals # <<>>

\* a later future was collected while an earlier one is still in a worker,
\* and the totals are withheld
C6_Witness ==
    /\ pcMain = "collect"
    /\ totals = <<>>
    /\ \E t, u \in Futures : t < u /\ u \in collected /\ pc[t] \in InWorker

\* the (system, version) pairs and the (system, version, index) descriptors
\* of the selected systems of the catalog
CatalogVersions ==
    {sv \in Selected \X TagNames :
        /\ sv[1] \in DOMAIN versions_data.result
        /\ sv[2] \in DOMAIN versions_data.result[sv[1]]}

CatalogItems ==
    {svi \in CatalogVersions \X (1..(MaxAssets + 1)) :
        svi[2] <= Len(versions_data.result[svi[1][1]][svi[1][2]])}

ItemOf(svi) == versions_data.result[svi[1][1]][svi[1][2]][svi[2]]

MissingManifests ==
    {sv \in CatalogVersions :
        <<BASE_DIR, sv[1], "Python", <<"SHA256SUMS", sv[2], "txt">>>> \notin DOMAIN fsAtPlan}

MissingItems ==
    {svi \in CatalogItems :
        <<BASE_DIR, svi[1][1], "Python", ItemOf(svi).filename>> \notin DOMAIN fsAtPlan}

\* C7: the planned manifest tasks are exactly one per (selected system,
\* version) of the catalog whose manifest is missing at planning time, the
\* planned artifact tasks exactly one per descriptor whose destination is
\* missing; skipped destinations are not counted: the totals add up to the
\* number of planned tasks.
C7_PlannerEmitsMissingOnly ==
    Planned =>
        /\ Len(sha_tasks) = Cardinality(MissingManifests)
        /\ {sha_tasks[i].save_path : i \in 1..Len(sha_tasks)} =
              {<<BASE_DIR, sv[1], "Python", <<"SHA256SUMS", sv[2], "txt">>>> :
                  sv \in MissingManifests}
        /\ Len(download_tasks) = Cardinality(MissingItems)
        /\ {[url |-> download_tasks[i].url, save_path |-> download_tasks[i].save_path] :
                  i \in 1..Len(download_tasks)} =
              {[url |-> ItemOf(svi).url,
                save_path |-> <<BASE_DIR, svi[1][1], "Python", ItemOf(svi).filename>>] :
                  svi \in MissingItems}
        /\ totals # <<>> => totals[1] + totals[2] = Len(sha_tasks) + Len(download_tasks)

\* the scenario of the specification: one Linux version with one artifact,
\* --system Linux, empty directory: 2 tasks planned, totals 2 and 0
C7_Witness ==
    /\ release = [tag_name |-> "v1", assets |-> <<LinuxAsset>>]
    /\ args.system = "Linux"
    /\ DOMAIN fsAtPlan = {}
    /\ Len(sha_tasks) = 1
    /\ Len(download_tasks) = 1
    /\ totals = <<2, 0>>

\* C8: a file that exists when the tasks are planned is the destination of
\* no task and keeps its content for the rest of the run.
C8_ExistingFilesUntouched ==
    \A p \in DOMAIN fsAtPlan :
        /\ Exists(fs, p)
        /\ fs[p] = fsAtPlan[p]
        /\ Planned => p \notin SavePaths

\* in a second run one file was already there, and of the tasks planned one
\* failed and removed its partial file while another succeeded
C8_Witness ==
    /\ run >= 2
    /\ DOMAIN fsAtPlan # {}
    /\ totals # <<>>
    /\ \E t, u \in Futures :
          /\ xfer[t] = "errWrite" /\ result[t] = "false" /\ t \notin rmFailed
          /\ result[u] = "true"

\* C9: no two tasks planned in one run have the same save_path.
C9_UniqueSavePaths ==
    \A t, u \in Futures : t # u => tasks[t].save_path # tasks[u].save_path

\* C10: when the catalog fetch raised, fetch_python_versions returned None,
\* main exits with status 1, no task is planned, no download is started and
\* no file changes.
C10_FetchFailureIsFatal ==
    /\ \A r \in Releases : fetch_python_versions(TRUE, r).none
    /\ (versions_data.none /\ pcMain # "start") =>
          /\ pcMain = "exit1"
          /\ Len(tasks) = 0
          /\ submitted = 0
          /\ queue = <<>>
          /\ fs = fsAtPlan

\* the fetch failed although the release lists a downloadable artifact
C10_Witness ==
    /\ pcMain = "exit1"
    /\ versions_data.none
    /\ release.tag_name = "v1"
    /\ \E i \in 1..Len(release.assets) : release.assets[i] = LinuxAsset
    /\ args.system \in {"Linux", "all"}

IsManifest(task) == \E i \in 1..Len(sha_tasks) : sha_tasks[i] = task

Manifests == {t \in Futures : IsManifest(tasks[t])}

Artifacts == {t \in Futures : ~IsManifest(tasks[t])}

Started == {t \in Futures : pc[t] \in InWorker \cup {"returned"}}

\* C11: an artifact task is submitted only when every manifest task has been
\* submitted; the order in which the tasks return is free.
C11_ManifestsSubmittedFirst ==
    \A t \in Manifests, u \in Artifacts :
        /\ pc[u] # "unsubmitted" => pc[t] # "unsubmitted"
        /\ (u \in QueueSet /\ t \in QueueSet) =>
              \E i, j \in 1..Len(queue) : i < j /\ queue[i] = t /\ queue[j] = u

\* an artifact task has returned while a manifest task, submitted before
\* it, is still in its worker
C11_Witness ==
    \E t \in Manifests, u \in Artifacts :
        /\ pc[u] = "returned"
        /\ pc[t] \in InWorker

InPrint == {t \in Futures : pc[t] \in {"printStart", "printDone", "printFail"}}

WaitingToPrint == {t \in Futures : pc[t] \in {"ready", "wantDone", "wantFail"}}

\* C12: at no instant are two workers inside the print of a progress line,
\* and a worker is inside a print exactly while it holds print_lock.
C12_PrintMutualExclusion ==
    /\ Cardinality(InPrint) <= 1
    /\ \A t \in Futures : (t \in InPrint) <=> (print_lock = t)
    /\ InPrint = {} => print_lock = 0

\* one worker prints its line while another worker waits for print_lock
C12_Witness ==
    /\ Cardinality(InPrint) = 1
    /\ WaitingToPrint # {}

\* download_files has planned at least one task and W >= 1
EngineEntered ==
    /\ Planned
    /\ Len(tasks) > 0
    /\ max_workers >= 1

\* the totals are printed and main is past download_files
TotalsReported ==
    /\ totals # <<>>
    /\ pcMain \in {"stats", "exit0"}

\* C13: for every non-empty task list and every W >= 1, under fair
\* scheduling download_files eventually prints the totals and returns.
C13_RunCompletes == EngineEntered ~> TotalsReported

\* fetch_python_versions has returned a catalog
Fetched == pcMain # "start" /\ ~versions_data.none

catalog == versions_data.result

\* the places (system, version, index) of the descriptors of the catalog
Entries ==
    {e \in (DOMAIN catalog) \X TagNames \X (1..(MaxAssets + 1)) :
        /\ e[2] \in DOMAIN catalog[e[1]]
        /\ e[3] <= Len(catalog[e[1]][e[2]])}

EntryAt(e) == catalog[e[1]][e[2]][e[3]]

PayloadIndices == 1..Len(release.assets)

C15_AllPlatformKeys ==
    Fetched =>
        /\ DOMAIN catalog = {"Linux", "macOS", "Windows"}
        /\ release.tag_name = "" => \A s \in DOMAIN catalog : DOMAIN catalog[s] = {}
        /\ \A s \in {"Linux", "macOS", "Windows"} :
              (\A e \in Entries : e[1] # s) => (s \in DOMAIN catalog /\ DOMAIN catalog[s] = {})

\* Linux has an artifact, Windows has none and is a key all the same
C15_Witness ==
    /\ Fetched
    /\ \E e \in Entries : e[1] = "Linux"
    /\ "Windows" \in DOMAIN catalog
    /\ DOMAIN catalog["Windows"] = {}

MarkerOf(system) ==
    IF system = "Linux" THEN "unknown-linux-gnu"
    ELSE IF system = "macOS" THEN "apple-darwin"
    ELSE "pc-windows"

ArchMarkers(system) ==
    IF system = "Windows" THEN {"x86_64", "i686"} ELSE {"x86_64", "aarch64"}

\* the platform families whose marker the name contains, and the first one
Families(name) == {s \in {"Linux", "macOS", "Windows"} : Contains(name, MarkerOf(s))}

FirstFamily(name) ==
    IF "Linux" \in Families(name) THEN "Linux"
    ELSE IF "macOS" \in Families(name) THEN "macOS"
    ELSE "Windows"

Kept(name) ==
    /\ Contains(name, "install_only.tar.gz")
    /\ Families(name) # {}
    /\ \E a \in ArchMarkers(FirstFamily(name)) : Contains(name, a)

EntriesOf(asset) ==
    {e \in Entries : EntryAt(e).filename = asset.name /\ EntryAt(e).url = asset.url}

\* C17: every asset of the payload that is kept is filed under exactly one
\* platform, once per listing in the payload; an asset with a platform marker
\* but no architecture marker of that platform, or with no platform marker,
\* is filed nowhere, and the fetch still returns a catalog.
C17_DisjointClassification ==
    /\ ~fetch_python_versions(FALSE, release).none
    /\ Fetched =>
          \A i \in PayloadIndices :
              LET asset == release.assets[i]
              IN  IF Kept(asset.name) /\ release.tag_name # ""
                      THEN /\ \A e \in EntriesOf(asset) : e[1] = FirstFamily(asset.name)
                           /\ Cardinality(EntriesOf(asset)) =
                                 Cardinality({j \in PayloadIndices : release.assets[j] = asset})
                      ELSE EntriesOf(asset) = {}

\* an asset with the markers of two platforms is filed under Linux only,
\* and an asset without architecture marker is dropped
C17_Witness ==
    /\ Fetched
    /\ release = [tag_name |-> "v1", assets |-> <<TwoSystemsAsset, NoArchAsset>>]
    /\ Cardinality(Entries) = 1
    /\ \E e \in Entries : e[1] = "Linux"

\* C16: when no task is planned, download_files returns before the pool is
\* created (also for W <= 0, which the pool would reject): nothing is
\* submitted or transferred, no file changes and no totals line is printed.
C16_NothingToDoSkipsEngine ==
    (Planned /\ Len(tasks) = 0) =>
        /\ pcMain \in {"stats", "exit0"}
        /\ submitted = 0
        /\ queue = <<>>
        /\ collected = {}
        /\ totals = <<>>
        /\ fs = fsAtPlan

\* a later run finds every destination on disk and ends without a task
C16_Witness ==
    /\ run >= 2
    /\ Planned
    /\ Len(tasks) = 0
    /\ DOMAIN fsAtPlan # {}
    /\ \E s \in Selected : DOMAIN versions_data.result[s] # {}
    /\ pcMain = "exit0"

\* C18: when the totals are printed, every task counted as a success has a
\* file at its save_path.
C18_SuccessHasFile ==
    totals # <<>> => \A t \in Succeeded : Exists(fs, tasks[t].save_path)

C20_Original ==
    (max_workers <= 0 /\ Planned /\ Ended) => pcMain = "crashed"

\* C20 amended: W <= 0 is not rejected before planning.  When at least one
\* task is planned the run ends with the error of the pool's constructor,
\* after the fetch and the planning (the folders exist), with nothing
\* submitted or transferred and every file as it was; when no task is planned
\* the run ends normally.
C20_NonPositiveWorkers ==
    max_workers <= 0 =>
        /\ (Planned /\ Len(tasks) > 0) =>
              /\ pcMain = "crashed"
              /\ \A t \in Futures :
                    /\ pc[t] = "unsubmitted"
                    /\ <<BASE_DIR, tasks[t].save_path[2], "Python">> \in dirs
        /\ (Planned /\ Len(tasks) = 0) => pcMain \in {"stats", "exit0"}
        /\ pcMain = "crashed" => (Planned /\ Len(tasks) > 0)
        /\ pcMain \in {"start", "plan", "exit1", "stats", "exit0", "crashed"}
        /\ submitted = 0
        /\ queue = <<>>
        /\ totals = <<>>
        /\ fs = fsAtPlan

\* a run with --workers 0 planned a task next to files of an earlier run and
\* ended with the error, the files untouched
C20_Witness ==
    /\ max_workers <= 0
    /\ pcMain = "crashed"
    /\ Len(tasks) > 0
    /\ DOMAIN fsAtPlan # {}
    /\ fs = fsAtPlan

====
